---- MODULE Spec2Model ----
(***************************************************************************)
(* Model of the sunrise-alarm sketch (src/arduino_code.ino): the selected  *)
(* planet, the sunrise animation, the serial command parser and the three  *)
(* blocks of loop().                                                       *)
(*                                                                         *)
(* Number representations.  The sketch targets an AVR Arduino: unsigned    *)
(* long and long are 32 bits wide, float is IEEE-754 binary32.  A 32-bit   *)
(* word is modelled as a record [hi, lo] of two 16-bit halves (value       *)
(* hi * 2^16 + lo), because the model checker's own integers are 32-bit    *)
(* signed.  A float is modelled as a record [m, e] with value m * 2^e,     *)
(* where m = 0 or 2^23 <= m < 2^24 (the 24-bit significand).               *)
(***************************************************************************)
EXTENDS Integers, Sequences, FiniteSets, TLC

----------------------------------------------------------------------------
(* 32-bit unsigned words (unsigned long)                                    *)

TwoTo8  == 2^8
TwoTo12 == 2^12
TwoTo15 == 2^15
TwoTo16 == 2^16
TwoTo23 == 2^23
TwoTo24 == 2^24

U32(h, l) == [hi |-> h, lo |-> l]

U32Of(n) == U32(n \div TwoTo16, n % TwoTo16)

U32Zero == U32(0, 0)

\* LONG_MAX = 2^31 - 1 as a 32-bit word
LongMax == U32(TwoTo15 - 1, TwoTo16 - 1)

\* LONG_MIN = -2^31 in two's complement
LongMin == U32(TwoTo15, 0)

\* a + b modulo 2^32
U32Add(a, b) ==
    LET l == a.lo + b.lo
    IN  U32((a.hi + b.hi + l \div TwoTo16) % TwoTo16, l % TwoTo16)

\* a - b modulo 2^32 (unsigned subtraction wraps)
U32Sub(a, b) ==
    LET l == a.lo - b.lo
        borrow == IF l < 0 THEN 1 ELSE 0
    IN  U32((a.hi - b.hi - borrow) % TwoTo16, l % TwoTo16)

\* a >= b as unsigned numbers
U32Geq(a, b) == (a.hi > b.hi) \/ (a.hi = b.hi /\ a.lo >= b.lo)

U32Less(a, b) == ~U32Geq(a, b)

\* -a modulo 2^32
U32Neg(a) == U32Sub(U32Zero, a)

\* a + b where a counts beyond 2^32: its upper half is not reduced
WideAdd(a, b) ==
    LET l == a.lo + b.lo
    IN  U32(a.hi + b.hi + l \div TwoTo16, l % TwoTo16)

----------------------------------------------------------------------------
(* Arduino String operations; a String is a sequence of one-character      *)
(* strings, indices are 0-based as in the Arduino API.                     *)

\* the vertical tab, character 0x0B (the string holds that one character)
VerticalTab == ""

\* isspace() of the C locale
IsSpace(c) == c \in {" ", "\t", "\n", VerticalTab, "\f", "\r"}

IsDigit(c) == c \in {"0", "1", "2", "3", "4", "5", "6", "7", "8", "9"}

DigitVal(c) ==
    CASE c = "0" -> 0 [] c = "1" -> 1 [] c = "2" -> 2 [] c = "3" -> 3
      [] c = "4" -> 4 [] c = "5" -> 5 [] c = "6" -> 6 [] c = "7" -> 7
      [] c = "8" -> 8 [] c = "9" -> 9

RECURSIVE DropLeadingSpace(_)
DropLeadingSpace(s) ==
    IF s # << >> /\ IsSpace(Head(s)) THEN DropLeadingSpace(Tail(s)) ELSE s

RECURSIVE DropTrailingSpace(_)
DropTrailingSpace(s) ==
    IF s # << >> /\ IsSpace(s[Len(s)])
    THEN DropTrailingSpace(SubSeq(s, 1, Len(s) - 1))
    ELSE s

\* String::trim(): removes leading and trailing whitespace
Trim(s) == DropTrailingSpace(DropLeadingSpace(s))

\* String::startsWith(prefix)
StartsWith(s, prefix) ==
    /\ Len(s) >= Len(prefix)
    /\ SubSeq(s, 1, Len(prefix)) = prefix

\* String::indexOf(ch): 0-based index of the first occurrence, -1 if none
IndexOf(s, ch) ==
    IF \E i \in 1..Len(s) : s[i] = ch
    THEN (CHOOSE i \in 1..Len(s) : s[i] = ch /\ \A j \in 1..(i - 1) : s[j] # ch) - 1
    ELSE -1

\* String::substring(from): the characters from 0-based index from to the end
Substring(s, from) ==
    IF from >= Len(s) THEN << >> ELSE SubSeq(s, from + 1, Len(s))

\* acc * 10 + d, as an unbounded pair: hi may exceed 16 bits (overflow of 32 bits)
Mul10Add(acc, d) ==
    LET l == acc.lo * 10 + d
    IN  [hi |-> acc.hi * 10 + l \div TwoTo16, lo |-> l % TwoTo16]

\* Accumulates the decimal digits at the front of s the way atol()/strtol() do.
\* acc is the magnitude modulo 2^32, big records that the true magnitude has
\* exceeded 2^32 - 1 at some point.
RECURSIVE AccumulateDigits(_, _, _)
AccumulateDigits(s, acc, big) ==
    IF s = << >> \/ ~IsDigit(Head(s))
    THEN [acc |-> acc, big |-> big]
    ELSE LET n == Mul10Add(acc, DigitVal(Head(s)))
         IN  AccumulateDigits(Tail(s), U32(n.hi % TwoTo16, n.lo),
                              big \/ n.hi >= TwoTo16)

\* The outcomes of atol() on a value that does not fit in a long (undefined
\* behaviour in C): avr-libc wraps modulo 2^32, a strtol-based libc saturates.
AtolOverflow == {"wrap", "saturate"}

\* String::toInt(): atol(buffer), returned as a 32-bit two's-complement long.
\* Skips leading whitespace, takes an optional sign and the run of digits that
\* follows; text with no digits converts to 0.
toInt(s, ovf) ==
    LET t      == DropLeadingSpace(s)
        neg    == t # << >> /\ Head(t) = "-"
        signed == t # << >> /\ Head(t) \in {"-", "+"}
        r      == AccumulateDigits(IF signed THEN Tail(t) ELSE t, U32Zero, FALSE)
        tooBig == \/ r.big
                  \/ (~neg /\ U32Geq(r.acc, LongMin))
                  \/ (neg /\ U32Geq(r.acc, LongMin) /\ r.acc # LongMin)
    IN  IF tooBig /\ ovf = "saturate"
        THEN (IF neg THEN LongMin ELSE LongMax)
        ELSE (IF neg THEN U32Neg(r.acc) ELSE r.acc)

----------------------------------------------------------------------------
(* IEEE-754 binary32 arithmetic, round to nearest, ties to even.            *)
(* A float is [m, e] with value m * 2^e; m = 0, or 2^23 <= m < 2^24.        *)

Float(mant, ex) == [m |-> mant, e |-> ex]

FloatZero == Float(0, 0)

\* the result of 0.0 / 0.0 or x / 0.0: not a finite number
FloatNotFinite == Float(-1, 0)

RECURSIVE BitLen(_)
BitLen(n) == IF n = 0 THEN 0 ELSE 1 + BitLen(n \div 2)

\* Rounds the significand kept, whose discarded part is (guard, sticky), to
\* nearest-even and renormalises if the increment carries out of 24 bits.
RoundFloat(kept, guard, sticky, ex) ==
    LET up == guard = 1 /\ (sticky \/ kept % 2 = 1)
        r  == IF up THEN kept + 1 ELSE kept
    IN  IF r = TwoTo24 THEN Float(TwoTo23, ex + 1) ELSE Float(r, ex)

\* (float)n for an int 0 <= n < 2^24: exact
FloatOfInt(n) ==
    IF n = 0 THEN FloatZero
    ELSE LET k == 24 - BitLen(n) IN Float(n * 2^k, -k)

\* (float)u for an unsigned long u: rounds when u needs more than 24 bits
FloatOfU32(u) ==
    IF u.hi < TwoTo8 THEN FloatOfInt(u.hi * TwoTo16 + u.lo)
    ELSE LET s    == BitLen(u.hi) - 8
             kept == u.hi * 2^(16 - s) + u.lo \div 2^s
             rem  == u.lo % 2^s
             half == 2^(s - 1)
         IN  RoundFloat(kept, IF rem >= half THEN 1 ELSE 0, rem % half # 0, s)

\* Long division: the next steps bits of the quotient r / d (r < d on entry
\* to each step after doubling), with the final remainder.
RECURSIVE DivBits(_, _, _, _)
DivBits(r, d, q, steps) ==
    IF steps = 0 THEN [q |-> q, r |-> r]
    ELSE LET r2 == 2 * r
         IN  IF r2 >= d THEN DivBits(r2 - d, d, 2 * q + 1, steps - 1)
                        ELSE DivBits(r2, d, 2 * q, steps - 1)

\* a / b in binary32
FloatDiv(a, b) ==
    IF b.m = 0 \/ a.m < 0 \/ b.m < 0 THEN FloatNotFinite
    ELSE IF a.m = 0 THEN FloatZero
    ELSE LET small == a.m < b.m
             n     == IF small THEN 2 * a.m ELSE a.m
             ea    == IF small THEN a.e - 1 ELSE a.e
             \* quotient n / b.m is in [1, 2): 1 leading bit, 23 fraction bits, 1 guard
             d     == DivBits(n - b.m, b.m, 1, 24)
         IN  RoundFloat(d.q \div 2, d.q % 2, d.r # 0, ea - b.e - 23)

\* a * b in binary32: the 48-bit product of the significands is formed from
\* 12-bit halves as hi * 2^24 + lo and rounded to 24 bits.
FloatMul(a, b) ==
    IF a.m < 0 \/ b.m < 0 THEN FloatNotFinite
    ELSE IF a.m = 0 \/ b.m = 0 THEN FloatZero
    ELSE LET ah  == a.m \div TwoTo12
             al  == a.m % TwoTo12
             bh  == b.m \div TwoTo12
             bl  == b.m % TwoTo12
             mid == ah * bl + al * bh
             low == al * bl + (mid % TwoTo12) * TwoTo12
             lo  == low % TwoTo24
             hi  == ah * bh + mid \div TwoTo12 + low \div TwoTo24
         IN  IF hi >= TwoTo23
             THEN RoundFloat(hi, lo \div TwoTo23, lo % TwoTo23 # 0, a.e + b.e + 24)
             ELSE RoundFloat(2 * hi + lo \div TwoTo23,
                             (lo \div (TwoTo23 \div 2)) % 2,
                             lo % (TwoTo23 \div 2) # 0,
                             a.e + b.e + 23)

\* (int)f for a finite float f >= 0: truncation toward zero
IntOfFloat(f) ==
    IF f.m = 0 THEN 0
    ELSE IF f.e >= 0 THEN f.m * 2^(f.e)
    ELSE IF -(f.e) >= 24 THEN 0
    ELSE f.m \div 2^(-(f.e))

----------------------------------------------------------------------------
(* Program state                                                            *)

VARIABLES
    pc,                 \* position of the sketch: "setup", "delay" (the delay(1000)
                        \* of setup()), then the three blocks of loop()
    currentPlanet,      \* int currentPlanet
    sunriseActive,      \* bool sunriseActive
    sunriseStartTime,   \* unsigned long sunriseStartTime
    targetR,            \* int targetR
    targetG,            \* int targetG
    targetB,            \* int targetB
    sunriseDuration,    \* unsigned long sunriseDuration
    led,                \* the values last passed to analogWrite() by setColor()
    clock,              \* the value millis() returns
    command,            \* String command of loop(): the line read and trimmed, or
                        \* NoLine outside the first block
    irFrame,            \* the frame IrReceiver holds decoded and not yet resumed, or NoFrame
    armedPlanet,        \* history: currentPlanet at the latest arming (0 before the first)
    last,               \* history: what the latest block of the sketch did, and
                        \* whether the sunrise was active when it started
    divByZero,          \* history: the progress division ran with a zero divisor
    irDuringSunrise,    \* history: the frame held was decoded while a sunrise was active
    epoch,              \* the value of millis() from which the clock is followed
    trueElapsed         \* history: the milliseconds since sunriseStartTime was last
                        \* assigned, counted without wrapping at 2^32

anim == <<sunriseActive, sunriseStartTime, sunriseDuration, targetR, targetG, targetB>>

vars == <<pc, currentPlanet, sunriseActive, sunriseStartTime, targetR, targetG,
          targetB, sunriseDuration, led, clock, command, irFrame, armedPlanet,
          last, divByZero, irDuringSunrise,
          epoch, trueElapsed>>

Color(red, green, blue) == [r |-> red, g |-> green, b |-> blue]

\* PlanetColor planets[3]
planets ==
    [i \in 0..2 |->
        CASE i = 0 -> [r |-> 230, g |-> 255, b |-> 0,   name |-> "Earth"]
          [] i = 1 -> [r |-> 100, g |-> 150, b |-> 255, name |-> "Moon"]
          [] i = 2 -> [r |-> 0,   g |-> 0,   b |-> 255, name |-> "Mars"]]

PlanetRGB(i) == Color(planets[i].r, planets[i].g, planets[i].b)

\* IrReceiver.decode() finds nothing
NoFrame == -1
\* Serial.available() is 0
NoLine == <<"none">>
Did(what) == [op |-> what, wasActive |-> sunriseActive]

----------------------------------------------------------------------------
(* Inputs                                                                   *)

\* the longest uptime after setup(), in ms, that the clock is followed for
MaxUptime == 28

\* the amounts of time that pass between two steps of the sketch
ClockSteps == {7, 21}

\* the button codes the remote sends: DOWN, UP and one the sketch does not map
IrCodes == {7, 9, 5}

SUNRISE == <<"S", "U", "N", "R", "I", "S", "E">>

\* Serial lines: optional padding, the keyword, a separator, an argument and a
\* line ending, in every combination, and two lines without the keyword.
Leads == {<< >>, <<" ">>}
Seps == {<< >>, <<" ">>, <<"\t">>}
Args == {<< >>, <<"0">>, <<"2", "5">>, <<"x">>, <<"2", "5", "x">>, <<"-", "2">>,
         <<"2", "1", "4", "7", "4", "8", "3", "6", "4", "7">>,
         <<"2", "1", "4", "7", "4", "8", "3", "6", "4", "8">>,
         <<"4", "2", "9", "4", "9", "6", "7", "3", "2", "1">>}
Trails == {<< >>, <<"\r">>}
OtherLines == {<< >>, <<"S", "U", "N", " ", "2", "5">>}

\* a start command with a vertical tab before the keyword, before the number
\* and at the end of the line
VerticalTabLines ==
    {<<VerticalTab>> \o SUNRISE \o <<" ", VerticalTab, "2", "5", VerticalTab>>}

Lines ==
    {l \o SUNRISE \o s \o a \o t : l \in Leads, s \in Seps, a \in Args, t \in Trails}
        \cup OtherLines \cup VerticalTabLines

----------------------------------------------------------------------------
(* The sketch                                                               *)

\* setColor(red, green, blue): three analogWrite() calls
setColor(red, green, blue) == led' = Color(red, green, blue)

\* displayPlanet(line1[, line2], r, g, b): LCD text, then setColor(r, g, b)
displayPlanet(red, green, blue) == setColor(red, green, blue)

\* a fault: the planet is shown and the sunrise left running
showPlanetKeepsSunrise(planet) ==
    /\ UNCHANGED sunriseActive
    /\ IF planet \in 0..2
       THEN displayPlanet(planets[planet].r, planets[planet].g, planets[planet].b)
       ELSE UNCHANGED led

\* showPlanet(planet): stops the sunrise and shows the planet's colour; the
\* switch has no default, so another value of planet writes nothing.
showPlanet(planet) ==
    /\ sunriseActive' = FALSE
    /\ IF planet \in 0..2
       THEN displayPlanet(planets[planet].r, planets[planet].g, planets[planet].b)
       ELSE UNCHANGED led

\* a fault: the ramp falls from the target to zero
InterpolateFalling(target, elapsedTime, duration) ==
    LET progress == FloatDiv(FloatOfU32(elapsedTime), FloatOfU32(duration))
    IN  target - IntOfFloat(FloatMul(FloatOfInt(target), progress))

\* (int)(target * progress) with progress = (float)elapsedTime / (float)sunriseDuration
Interpolate(target, elapsedTime, duration) ==
    LET progress == FloatDiv(FloatOfU32(elapsedTime), FloatOfU32(duration))
    IN  IntOfFloat(FloatMul(FloatOfInt(target), progress))

\* the values (int)x can take when x is not a finite number (undefined in C)
UndefinedInt == {0, -1, -32768}

\* a fault: the difference does not wrap, it is 0 when millis() is below the
\* start time
ElapsedTimeNoWrap(now, start) ==
    IF U32Geq(now, start) THEN U32Sub(now, start) ELSE U32Zero

\* millis() - sunriseStartTime, an unsigned long
ElapsedTime(now, start) == U32Sub(now, start)

\* a fault: the duration text starts one character late
DurationTextOffByOne(cmd, firstSpace) == Substring(cmd, firstSpace + 2)

\* command.substring(firstSpace + 1)
DurationText(cmd, firstSpace) == Substring(cmd, firstSpace + 1)

\* the values toInt() can return for the text s
toIntOutcomes(s) == {toInt(s, ovf) : ovf \in AtolOverflow}

\* a fault: a command received while the sunrise runs keeps the running
\* sunrise's start time
parseAndStartSunriseKeepsStart(cmd) ==
    LET firstSpace == IndexOf(cmd, " ")
    IN  IF firstSpace > 0
        THEN /\ sunriseDuration' \in toIntOutcomes(DurationText(cmd, firstSpace))
             /\ targetR' = planets[currentPlanet].r
             /\ targetG' = planets[currentPlanet].g
             /\ targetB' = planets[currentPlanet].b
             /\ sunriseActive' = TRUE
             /\ sunriseStartTime' = (IF sunriseActive THEN sunriseStartTime ELSE clock)
             /\ setColor(0, 0, 0)
             /\ armedPlanet' = currentPlanet
             /\ trueElapsed' = U32Zero
             /\ last' = Did("arm")
        ELSE /\ UNCHANGED <<anim, led, armedPlanet, trueElapsed>>
             /\ last' = Did("invalid")

\* a fault: the target is always the first preset's colour
parseAndStartSunriseFirstPreset(cmd) ==
    LET firstSpace == IndexOf(cmd, " ")
    IN  IF firstSpace > 0
        THEN /\ sunriseDuration' \in toIntOutcomes(DurationText(cmd, firstSpace))
             /\ targetR' = planets[0].r
             /\ targetG' = planets[0].g
             /\ targetB' = planets[0].b
             /\ sunriseActive' = TRUE
             /\ sunriseStartTime' = clock
             /\ setColor(0, 0, 0)
             /\ armedPlanet' = currentPlanet
             /\ trueElapsed' = U32Zero
             /\ last' = Did("arm")
        ELSE /\ UNCHANGED <<anim, led, armedPlanet, trueElapsed>>
             /\ last' = Did("invalid")

\* parseAndStartSunrise(command)
parseAndStartSunrise(cmd) ==
    LET firstSpace == IndexOf(cmd, " ")
    IN  IF firstSpace > 0
        THEN /\ sunriseDuration' \in toIntOutcomes(DurationText(cmd, firstSpace))
             /\ targetR' = planets[currentPlanet].r
             /\ targetG' = planets[currentPlanet].g
             /\ targetB' = planets[currentPlanet].b
             /\ sunriseActive' = TRUE
             /\ sunriseStartTime' = clock
             /\ setColor(0, 0, 0)
             /\ armedPlanet' = currentPlanet
             /\ trueElapsed' = U32Zero
             /\ last' = Did("arm")
        ELSE /\ UNCHANGED <<anim, led, armedPlanet, trueElapsed>>
             /\ last' = Did("invalid")

\* a fault: completion only when the elapsed time hits the duration exactly
SunriseOverOnlyAtEnd(elapsedTime, duration) == elapsedTime = duration

\* a fault: completion only strictly after the duration
SunriseOverStrictlyAfter(elapsedTime, duration) ==
    U32Geq(elapsedTime, duration) /\ elapsedTime # duration

\* elapsedTime >= sunriseDuration
SunriseOver(elapsedTime, duration) == U32Geq(elapsedTime, duration)

\* a fault: the completing tick stops the sunrise and writes no colour
updateSunriseNoFinalColour ==
    LET elapsedTime == ElapsedTime(clock, sunriseStartTime)
    IN  IF SunriseOver(elapsedTime, sunriseDuration)
        THEN /\ sunriseActive' = FALSE
             /\ UNCHANGED <<led, divByZero>>
             /\ last' = Did("complete")
        ELSE /\ UNCHANGED sunriseActive
             /\ last' = Did("ramp")
             /\ IF sunriseDuration = U32Zero
                THEN /\ divByZero' = TRUE
                     /\ \E x \in UndefinedInt : setColor(x, x, x)
                ELSE /\ UNCHANGED divByZero
                     /\ setColor(Interpolate(targetR, elapsedTime, sunriseDuration),
                                 Interpolate(targetG, elapsedTime, sunriseDuration),
                                 Interpolate(targetB, elapsedTime, sunriseDuration))

\* updateSunrise()
updateSunrise ==
    LET elapsedTime == ElapsedTime(clock, sunriseStartTime)
    IN  IF SunriseOver(elapsedTime, sunriseDuration)
        THEN /\ sunriseActive' = FALSE
             /\ setColor(targetR, targetG, targetB)
             /\ UNCHANGED divByZero
             /\ last' = Did("complete")
        ELSE /\ UNCHANGED sunriseActive
             /\ last' = Did("ramp")
             /\ IF sunriseDuration = U32Zero
                THEN /\ divByZero' = TRUE
                     /\ \E x \in UndefinedInt : setColor(x, x, x)
                ELSE /\ UNCHANGED divByZero
                     /\ setColor(Interpolate(targetR, elapsedTime, sunriseDuration),
                                 Interpolate(targetG, elapsedTime, sunriseDuration),
                                 Interpolate(targetB, elapsedTime, sunriseDuration))

\* setup() up to its delay: the receiver is started and the LED switched off
SetupBegin ==
    /\ pc = "setup"
    /\ setColor(0, 0, 0)
    /\ last' = Did("begin")
    /\ pc' = "delay"
    /\ UNCHANGED <<currentPlanet, anim, clock, command, irFrame, armedPlanet,
                   divByZero, irDuringSunrise, epoch, trueElapsed>>

\* the rest of setup(): delay(1000), in which the receiver may have taken a
\* frame, then showPlanet(0)
SetupEnd ==
    /\ pc = "delay"
    /\ clock' = U32Add(clock, U32Of(1000))
    /\ showPlanet(0)
    /\ last' = Did("setup")
    /\ pc' = "serial"
    /\ UNCHANGED <<currentPlanet, sunriseStartTime, targetR, targetG, targetB,
                   sunriseDuration, command, irFrame, armedPlanet, divByZero,
                   irDuringSunrise>>
    /\ epoch' = clock'
    /\ trueElapsed' = WideAdd(trueElapsed, U32Of(1000))

\* loop(), first block: a serial line, if one is available, is read, trimmed
\* and, when it starts with SUNRISE, parsed
LoopSerial(line) ==
    /\ pc = "serial"
    /\ command' = (IF line = NoLine THEN NoLine ELSE Trim(line))
    /\ IF line # NoLine /\ StartsWith(command', SUNRISE)
       THEN parseAndStartSunrise(command')
       ELSE /\ UNCHANGED <<anim, led, armedPlanet, trueElapsed>>
            /\ last' = Did(IF line = NoLine THEN "noline" ELSE "ignored")
    /\ pc' = "sunrise"
    /\ UNCHANGED <<currentPlanet, clock, irFrame, divByZero, irDuringSunrise, epoch>>

\* loop(), second block: if (sunriseActive) updateSunrise();
LoopSunrise ==
    /\ pc = "sunrise"
    /\ IF sunriseActive
       THEN updateSunrise
       ELSE /\ UNCHANGED <<sunriseActive, led, divByZero>>
            /\ last' = Did("notick")
    /\ pc' = "ir"
    /\ command' = NoLine
    /\ UNCHANGED <<currentPlanet, sunriseStartTime, targetR, targetG, targetB,
                   sunriseDuration, clock, irFrame, armedPlanet, irDuringSunrise,
                   epoch, trueElapsed>>

\* a fault: the wrap test of UP is off by one
SelectUpLateWrap(planet) == IF planet + 1 > 3 THEN 0 ELSE planet + 1

\* currentPlanet++; if (currentPlanet > 2) currentPlanet = 0;
SelectUp(planet) == IF planet + 1 > 2 THEN 0 ELSE planet + 1

\* a fault: DOWN stops at the first preset instead of wrapping to the last
SelectDownNoWrap(planet) == IF planet - 1 < 0 THEN 0 ELSE planet - 1

\* currentPlanet--; if (currentPlanet < 0) currentPlanet = 2;
SelectDown(planet) == IF planet - 1 < 0 THEN 2 ELSE planet - 1

\* a fault: the receiver is resumed only after UP and DOWN
HandleButtonResumesIfKnown(button) ==
    IF button = 9
    THEN /\ currentPlanet' = SelectUp(currentPlanet)
         /\ showPlanet(currentPlanet')
         /\ last' = Did("up")
         /\ irFrame' = NoFrame
         /\ irDuringSunrise' = FALSE
    ELSE IF button = 7
    THEN /\ currentPlanet' = SelectDown(currentPlanet)
         /\ showPlanet(currentPlanet')
         /\ last' = Did("down")
         /\ irFrame' = NoFrame
         /\ irDuringSunrise' = FALSE
    ELSE /\ UNCHANGED <<currentPlanet, sunriseActive, led, irFrame, irDuringSunrise>>
         /\ last' = Did("other")

\* the body of if (!sunriseActive && IrReceiver.decode()): the button is
\* handled and the receiver resumed
HandleButton(button) ==
    /\ IF button = 9
       THEN /\ currentPlanet' = SelectUp(currentPlanet)
            /\ showPlanet(currentPlanet')
            /\ last' = Did("up")
       ELSE IF button = 7
       THEN /\ currentPlanet' = SelectDown(currentPlanet)
            /\ showPlanet(currentPlanet')
            /\ last' = Did("down")
       ELSE /\ UNCHANGED <<currentPlanet, sunriseActive, led>>
            /\ last' = Did("other")
    /\ irFrame' = NoFrame
    /\ irDuringSunrise' = FALSE

\* a fault: the remote is handled during a sunrise too
RemoteDueAlways == irFrame # NoFrame

\* !sunriseActive && IrReceiver.decode()
RemoteDue == ~sunriseActive /\ irFrame # NoFrame

\* loop(), third block: the IR remote, only if the sunrise is not active
LoopIr ==
    /\ pc = "ir"
    /\ IF RemoteDue
       THEN HandleButton(irFrame)
       ELSE /\ UNCHANGED <<currentPlanet, sunriseActive, led, irFrame, irDuringSunrise>>
            /\ last' = Did("nopoll")
    /\ pc' = "serial"
    /\ UNCHANGED <<sunriseStartTime, targetR, targetG, targetB, sunriseDuration,
                   clock, command, armedPlanet, divByZero,
                   epoch, trueElapsed>>

\* The receiver, once started, decodes a frame; it holds one frame until
\* resume() is called and does not take another one before that.
IrReceive(code) ==
    /\ pc # "setup"
    /\ irFrame = NoFrame
    /\ irFrame' = code
    /\ irDuringSunrise' = sunriseActive
    /\ UNCHANGED <<pc, currentPlanet, anim, led, clock, command, armedPlanet, last,
                   divByZero, epoch, trueElapsed>>

\* the clock is followed for MaxUptime ms from epoch
ClockFollowed(dt) ==
    U32Geq(U32Of(MaxUptime), U32Sub(U32Add(clock, U32Of(dt)), epoch))

\* Time passes: millis() grows by dt
Advance(dt) ==
    /\ pc \in {"serial", "sunrise", "ir"}
    /\ ClockFollowed(dt)
    /\ clock' = U32Add(clock, U32Of(dt))
    /\ trueElapsed' = WideAdd(trueElapsed, U32Of(dt))
    /\ UNCHANGED <<pc, currentPlanet, anim, led, command, irFrame, armedPlanet, last,
                   divByZero, irDuringSunrise, epoch>>

\* The long stretches of time that are not followed step by step: 2^32 - 1014
\* ms, after which a clock at 1000 is 14 ms before its wrap, and 2^32 - 5 ms
LongSteps == {U32Neg(U32Of(1014)), U32Neg(U32Of(5))}

\* how long before the end of a long stretch its last iteration of loop()
\* started: 7 ms, or 2^20 ms (loop() called some 4000 times in 2^32 ms)
LongLags == {U32Of(7), U32(16, 0)}

\* A long stretch passes, once, before any followed time has passed, between
\* two iterations of loop(). loop() keeps running in it, with no serial line
\* and no new frame. With the sunrise inactive and no frame held its
\* iterations change nothing. With the sunrise active the stretch is one in
\* which no tick completes the sunrise (the elapsed time stays below the
\* duration): every iteration ticks, and the LED is left at the ramp value
\* that the last tick of the stretch wrote.
LongWait(dt) ==
    /\ pc = "serial"
    /\ clock = epoch
    /\ epoch = U32Of(1000)
    /\ clock' = U32Add(clock, dt)
    /\ epoch' = clock'
    /\ trueElapsed' = WideAdd(trueElapsed, dt)
    /\ last' = Did("nopoll")
    /\ IF sunriseActive
       THEN /\ U32Less(U32Add(ElapsedTime(clock, sunriseStartTime), dt), sunriseDuration)
            /\ \E lag \in LongLags :
                  LET elapsedTime == ElapsedTime(U32Sub(clock', lag), sunriseStartTime)
                  IN  setColor(Interpolate(targetR, elapsedTime, sunriseDuration),
                               Interpolate(targetG, elapsedTime, sunriseDuration),
                               Interpolate(targetB, elapsedTime, sunriseDuration))
       ELSE /\ irFrame = NoFrame
            /\ UNCHANGED led
    /\ UNCHANGED <<pc, currentPlanet, anim, command, irFrame, armedPlanet,
                   divByZero, irDuringSunrise>>

Init ==
    /\ pc = "setup"
    /\ currentPlanet = 0
    /\ sunriseActive = FALSE
    /\ sunriseStartTime = U32Zero
    /\ targetR = 0
    /\ targetG = 0
    /\ targetB = 0
    /\ sunriseDuration = U32Zero
    /\ led = Color(0, 0, 0)
    /\ clock = U32Zero
    /\ command = NoLine
    /\ irFrame = NoFrame
    /\ armedPlanet = 0
    /\ last = [op |-> "boot", wasActive |-> FALSE]
    /\ divByZero = FALSE
    /\ irDuringSunrise = FALSE
    /\ epoch = U32Zero
    /\ trueElapsed = U32Zero

Next ==
    \/ SetupBegin
    \/ SetupEnd
    \/ \E line \in Lines \cup {NoLine} : LoopSerial(line)
    \/ LoopSunrise
    \/ LoopIr
    \/ \E code \in IrCodes : IrReceive(code)
    \/ \E dt \in ClockSteps : Advance(dt)

Spec == Init /\ [][Next]_vars

\* the serial lines of the runs whose scheduling is followed: start commands
\* of 0 ms, of 25 ms, of 2^31 - 1 ms and of 2^32 - 2 ms (written -2 and
\* 4294967294), and a line that is not a command
FairLines ==
    {SUNRISE \o <<" ">> \o a :
        a \in {<<"0">>, <<"2", "5">>, <<"-", "2">>,
               <<"2", "1", "4", "7", "4", "8", "3", "6", "4", "7">>,
               <<"4", "2", "9", "4", "9", "6", "7", "2", "9", "4">>}}
        \cup {<<"S", "U", "N", " ", "2", "5">>}

\* the long stretches of the runs whose scheduling is followed: those of
\* LongSteps, and 2^31 - 15 ms, which is 14 ms short of a sunrise of 2^31 - 1 ms
FairLongSteps == LongSteps \cup {U32Sub(LongMax, U32Of(14))}

\* setup() returns and loop() is called again and again
Sketch ==
    \/ SetupBegin
    \/ SetupEnd
    \/ \E line \in FairLines \cup {NoLine} : LoopSerial(line)
    \/ LoopSunrise
    \/ LoopIr

NextFair ==
    \/ Sketch
    \/ \E code \in IrCodes : IrReceive(code)
    \/ \E dt \in ClockSteps : Advance(dt)
    \/ \E dt \in FairLongSteps : LongWait(dt)

\* The sketch with its scheduling: the Arduino core calls setup() and then
\* loop() for ever, so each block that is reached is run, and the timer
\* interrupt keeps millis() advancing (for as long as the clock is followed).
\* A long stretch may pass or not: it is not required.
\* The second block is enabled exactly when pc is at it and the blocks before
\* and after it are weakly fair, so its weak fairness is stated as the block
\* running again and again.
SpecFair ==
    /\ Init
    /\ [][NextFair]_vars
    /\ WF_vars(SetupBegin)
    /\ WF_vars(SetupEnd)
    /\ WF_vars(\E line \in FairLines \cup {NoLine} : LoopSerial(line))
    /\ []<><<LoopSunrise>>_vars
    /\ WF_vars(LoopIr)
    /\ WF_vars(\E dt \in ClockSteps : Advance(dt))

\* The planets showPlanet() is called with: the three presets and a value
\* its switch has no case for.
ShowArgs == 0 .. 3

\* showPlanet(planet) called on its own, at any point between two blocks of
\* loop(): the call loop() itself makes only with the sunrise inactive. The
\* run ends with the call.
CallShowPlanet(planet) ==
    /\ pc \in {"serial", "sunrise", "ir"}
    /\ showPlanet(planet)
    /\ last' = Did("show")
    /\ pc' = "called"
    /\ UNCHANGED <<currentPlanet, sunriseStartTime, targetR, targetG, targetB,
                   sunriseDuration, clock, command, irFrame, armedPlanet, divByZero,
                   irDuringSunrise, epoch, trueElapsed>>

NextShowPlanet ==
    \/ Next
    \/ \E planet \in ShowArgs : CallShowPlanet(planet)

\* the sketch, with showPlanet() also called on its own
SpecShowPlanet == Init /\ [][NextShowPlanet]_vars

NextWrap ==
    \/ Next
    \/ \E dt \in LongSteps : LongWait(dt)

\* the sketch running for 49 days and more, so that millis() wraps
SpecWrap == Init /\ [][NextWrap]_vars

----------------------------------------------------------------------------
(* Properties                                                               *)

\* the number of presets
N == Cardinality(DOMAIN planets)

\* the value of a 32-bit word that is below 2^31
U32Val(u) == u.hi * TwoTo16 + u.lo

elapsed == ElapsedTime(clock, sunriseStartTime)

target == Color(targetR, targetG, targetB)

\* a tick: the second block of loop() runs with the sunrise active
Ticking == pc = "sunrise" /\ pc' = "ir" /\ sunriseActive

\* the third block of loop() runs
IrStep == pc = "ir" /\ pc' = "serial"

\* C1: in every reachable state the selected preset index satisfies
\* 0 <= currentPlanet < 3.
C1_IndexInRange == 0 <= currentPlanet /\ currentPlanet < 3

\* the selection has gone up twice and wrapped down once (0 -> 2 by DOWN)
C1_Witness == currentPlanet = 2 /\ last.op = "down" /\ led = PlanetRGB(2)

\* C2: a handled SelectUp (code 9) from index i yields (i + 1) mod N, a handled
\* SelectDown (code 7) yields (i - 1) mod N, and N SelectUp steps from i lead
\* back to i.
C2_SelectWraps ==
    [][(IrStep /\ ~sunriseActive /\ irFrame = 9
            => /\ currentPlanet' = (currentPlanet + 1) % N
               /\ SelectUp(SelectUp(currentPlanet')) = currentPlanet)
       /\ (IrStep /\ ~sunriseActive /\ irFrame = 7
            => currentPlanet' = (currentPlanet - 1) % N)]_vars

\* UP has just been handled at the last index and wrapped to 0
C2_Witness == last.op = "up" /\ currentPlanet = 0 /\ pc = "serial"

\* r * e / d truncated, for d > 0 and e below 2^16
FloorScale(r, e, d) ==
    IF d.hi >= TwoTo15 THEN 0 ELSE (r * e.lo) \div U32Val(d)

\* C3 (as claimed): a tick at elapsed time e, 0 <= e < D, writes
\* (floor(r*e/D), floor(g*e/D), floor(b*e/D)) and leaves the animation active.
C3_RampIsFloor ==
    [][Ticking /\ U32Less(elapsed, sunriseDuration) /\ elapsed.hi = 0
            => /\ led' = Color(FloorScale(targetR, elapsed, sunriseDuration),
                               FloorScale(targetG, elapsed, sunriseDuration),
                               FloorScale(targetB, elapsed, sunriseDuration))
               /\ sunriseActive']_vars

\* C4: a tick at elapsed time e >= D writes exactly the target colour and
\* makes the animation inactive, however far e is beyond D.
C4_CompletesAtTarget ==
    [][Ticking /\ U32Geq(elapsed, sunriseDuration)
            => led' = target /\ ~sunriseActive']_vars

\* a run of 25 ms on Moon has completed at a tick later than its end
C4_Witness ==
    /\ last.op = "complete"
    /\ pc = "ir"
    /\ sunriseDuration = U32Of(25)
    /\ U32Geq(elapsed, U32Of(26))
    /\ armedPlanet = 1
    /\ led = PlanetRGB(1)
    /\ ~sunriseActive

\* C5: an animation armed with duration 0 completes on the first tick after
\* arming (target written, inactive), and the progress division never runs
\* with a zero duration.
C5_ZeroDuration ==
    [][/\ (Ticking /\ sunriseDuration = U32Zero
            => led' = target /\ ~sunriseActive')
       /\ ~divByZero']_vars

\* a zero-length run on Moon has completed at the very tick after arming
C5_Witness ==
    /\ last.op = "complete"
    /\ pc = "ir"
    /\ sunriseDuration = U32Zero
    /\ elapsed = U32Zero
    /\ armedPlanet = 1
    /\ led = PlanetRGB(1)
    /\ ~sunriseActive

\* the first block of loop() runs
SerialStep == pc = "serial" /\ pc' = "sunrise"

IsDecimal(s) == s # << >> /\ \A i \in 1..Len(s) : IsDigit(s[i])

\* a SUNRISE line has been read: trimmed, it starts with the keyword
IsSunriseLine(line) == line # NoLine /\ StartsWith(line, SUNRISE)

\* no separator, or the text after it is not a non-negative decimal integer
Malformed(line) ==
    LET i == IndexOf(line, " ")
    IN  i < 0 \/ ~IsDecimal(Substring(line, i + 1))

\* the keyword, one space and a decimal non-negative integer
WellFormed(line) ==
    /\ line # NoLine
    /\ StartsWith(line, SUNRISE \o <<" ">>)
    /\ IsDecimal(SubSeq(line, Len(SUNRISE) + 2, Len(line)))

DigitsOf(line) == SubSeq(line, Len(SUNRISE) + 2, Len(line))

\* the number a decimal numeral denotes, as hi * 2^16 + lo with lo < 2^16 and
\* hi as large as the number needs
RECURSIVE DecimalValue(_)
DecimalValue(digits) ==
    IF digits = << >> THEN [hi |-> 0, lo |-> 0]
    ELSE LET v == DecimalValue(SubSeq(digits, 1, Len(digits) - 1))
             l == v.lo * 10 + DigitVal(digits[Len(digits)])
         IN  [hi |-> v.hi * 10 + l \div TwoTo16, lo |-> l % TwoTo16]

\* the number is at most LONG_MAX = 2^31 - 1
FitsLong(v) == v.hi < TwoTo15

\* C6 (as claimed): a SUNRISE line with no separator, or whose text after the
\* separator is not a non-negative integer, leaves active, startTime,
\* duration and target as they were.
C6_MalformedLeavesState ==
    [][SerialStep /\ IsSunriseLine(command') /\ Malformed(command')
          => UNCHANGED anim]_vars

\* C7 (as claimed): a line that trims to SUNRISE, one space and a decimal
\* non-negative integer d arms the animation with duration exactly d, and the
\* target is the selected preset's colour whatever the line says.
C7_ArmsWithDuration ==
    [][SerialStep /\ WellFormed(command')
          => /\ sunriseActive'
             /\ sunriseDuration' = DecimalValue(DigitsOf(command'))
             /\ target' = PlanetRGB(currentPlanet)]_vars

\* C7 (amended): the same for every d that fits in a long, d <= 2^31 - 1.
C7_ArmsWithDurationInRange ==
    [][SerialStep /\ WellFormed(command') /\ FitsLong(DecimalValue(DigitsOf(command')))
          => /\ sunriseActive'
             /\ sunriseDuration' = DecimalValue(DigitsOf(command'))
             /\ target' = PlanetRGB(currentPlanet)]_vars

\* Mars is selected and a command has just armed a run of 25 ms
C7_Witness ==
    /\ command = SUNRISE \o <<" ", "2", "5">>
    /\ pc = "sunrise"
    /\ sunriseActive
    /\ sunriseDuration = U32Of(25)
    /\ currentPlanet = 2
    /\ target = PlanetRGB(2)

\* C8: arming, from Idle or while Running, sets active, startTime = now,
\* duration = the parsed value and target = the selected preset's colour, and
\* writes (0,0,0); none of this depends on the previous run.
C8_ArmResets ==
    [][SerialStep /\ last'.op = "arm"
          => /\ sunriseActive'
             /\ sunriseStartTime' = clock
             /\ target' = PlanetRGB(currentPlanet)
             /\ led' = Color(0, 0, 0)
             /\ (WellFormed(command') /\ FitsLong(DecimalValue(DigitsOf(command')))
                    => sunriseDuration' = DecimalValue(DigitsOf(command')))]_vars

\* a running sunrise has just been re-armed, later than its own start
C8_Witness ==
    /\ last = [op |-> "arm", wasActive |-> TRUE]
    /\ pc = "sunrise"
    /\ sunriseActive
    /\ sunriseStartTime = clock
    /\ U32Geq(clock, U32Of(1014))
    /\ sunriseDuration = U32Of(25)
    /\ led = Color(0, 0, 0)

\* C9: while an animation is active the remote does not change the state: the
\* third block of loop(), run with the animation active, leaves the selection,
\* the animation and the light as they are, and a step that ends with the
\* animation active has not changed the selection.
C9_RemoteIgnoredWhileActive ==
    [][/\ (IrStep /\ sunriseActive => UNCHANGED <<currentPlanet, anim, led>>)
       /\ (sunriseActive' => currentPlanet' = currentPlanet)]_vars

\* the third block has just run with the sunrise active and UP pending
C9_Witness ==
    /\ last = [op |-> "nopoll", wasActive |-> TRUE]
    /\ pc = "serial"
    /\ sunriseActive
    /\ irFrame = 9

\* C10: the colour written at completion is the colour of the preset that was
\* selected when the animation was armed; between arming and completion the
\* target does not change.
C10_CompletionColour ==
    [][/\ (Ticking /\ ~sunriseActive' => led' = PlanetRGB(armedPlanet))
       /\ (sunriseActive /\ last'.op # "arm" => target' = PlanetRGB(armedPlanet))]_vars

\* a run armed on Mars has completed
C10_Witness ==
    /\ last.op = "complete"
    /\ armedPlanet = 2
    /\ sunriseDuration = U32Of(25)
    /\ led = PlanetRGB(2)
    /\ ~sunriseActive

\* C11 as stated: a call of showPlanet() with the sunrise active makes it
\* inactive and does not write the sunrise's target colour.
C11_ShowWritesNoTarget ==
    [][\A planet \in ShowArgs :
          pc' = "called" /\ sunriseActive /\ CallShowPlanet(planet)
              => ~sunriseActive' /\ led' # target]_vars

\* C11: a call of showPlanet(planet) with the sunrise active makes it inactive
\* at once and writes the colour of preset planet (nothing for a planet
\* outside 0..2); the colour written is the sunrise's target colour exactly
\* when planet is the preset the sunrise was armed on.
C11_ShowStopsAndWritesPreset ==
    [][\A planet \in ShowArgs :
          pc' = "called" /\ sunriseActive /\ CallShowPlanet(planet)
              => /\ ~sunriseActive'
                 /\ led' = (IF planet \in DOMAIN planets THEN PlanetRGB(planet) ELSE led)
                 /\ (led' = target <=> planet = armedPlanet)
                 /\ UNCHANGED <<currentPlanet, sunriseStartTime, sunriseDuration,
                                target>>]_vars

\* showPlanet(2) has been called during a sunrise armed on the Moon, after a
\* tick of the ramp
C11_Witness ==
    /\ last = [op |-> "show", wasActive |-> TRUE]
    /\ ~sunriseActive
    /\ armedPlanet = 1
    /\ led = PlanetRGB(2)
    /\ target = PlanetRGB(1)
    /\ U32Less(sunriseStartTime, clock)

\* C12: in one iteration of loop(), if the second block ticked the sunrise,
\* the third block does not poll the receiver and handles no button, also when
\* that tick completed the sunrise.
C12_TickExcludesRemote ==
    [][IrStep /\ last.op \in {"ramp", "complete"}
            => /\ sunriseActive
               /\ last'.op = "nopoll"
               /\ UNCHANGED <<currentPlanet, led, irFrame>>]_vars

\* C13: a button other than 9 and 7, handled with the sunrise inactive,
\* leaves the selected preset, the sunrise and the light as they are, and the
\* receiver is resumed: it holds no frame, which is what IrReceive waits for
\* to take the next one.
C13_OtherButton ==
    [][IrStep /\ ~sunriseActive /\ irFrame \notin {NoFrame, 9, 7}
            => /\ UNCHANGED <<currentPlanet, anim, led>>
               /\ last'.op = "other"
               /\ irFrame' = NoFrame
               /\ pc' # "setup"]_vars

\* button 5 has been handled with the Moon shown, after a sunrise
C13_Witness ==
    /\ last = [op |-> "other", wasActive |-> FALSE]
    /\ pc = "serial"
    /\ currentPlanet = 1
    /\ led = PlanetRGB(1)
    /\ sunriseDuration = U32Of(25)
    /\ irFrame = NoFrame

\* C14: a frame decoded while a sunrise is active is never acted upon: when
\* the third block of loop() runs with such a frame held, during the sunrise
\* or after it has ended, the selected preset and the light stay as they are.
C14_FrameDuringSunriseDropped ==
    [][IrStep /\ irDuringSunrise => UNCHANGED <<currentPlanet, led>>]_vars

\* the sunrise has been completed by a tick and the LED is at the target
Completed == ~sunriseActive /\ last.op = "complete" /\ led = target

\* the clock is not followed any further and the sunrise is still running
\* because its duration has not passed yet: the run that is followed ends
\* before the sunrise does
ClockEndedEarly ==
    /\ sunriseActive
    /\ U32Less(trueElapsed, sunriseDuration)
    /\ \A dt \in ClockSteps : ~ClockFollowed(dt)

\* the longest time between two ticks of a running sunrise: the lag of the
\* last tick of a long stretch and the followed time after it
MaxTickGap == U32Add(U32(16, 0), U32Of(MaxUptime))

\* duration + MaxTickGap < 2^32: some tick falls between the duration and
\* 2^32 ms after the arming
TicksReachEnd == U32Geq(U32Sub(U32Neg(U32Of(1)), MaxTickGap), sunriseDuration)

\* colour last written to the LED is planets[currentPlanet].
C16_IdleShowsSelected ==
    pc = "serial" /\ ~sunriseActive => led = PlanetRGB(currentPlanet)

\* an iteration has ended after a sunrise of 25 ms on the Moon completed
C16_Witness ==
    /\ pc = "serial"
    /\ ~sunriseActive
    /\ last.op = "nopoll"
    /\ currentPlanet = 1
    /\ armedPlanet = 1
    /\ sunriseDuration = U32Of(25)
    /\ elapsed = U32Of(28)
    /\ led = PlanetRGB(1)

\* C17: in loop() the sunrise goes from active to inactive only by a
\* completing tick, which writes exactly the target colour; the third block,
\* run with the sunrise active, calls no showPlanet().
C17_OnlyCompletionEnds ==
    [][/\ (sunriseActive /\ ~sunriseActive'
            => /\ Ticking
               /\ U32Geq(elapsed, sunriseDuration)
               /\ last'.op = "complete"
               /\ led' = target)
       /\ (IrStep /\ sunriseActive => last'.op = "nopoll" /\ sunriseActive')]_vars

\* a sunrise on the Moon has been completed by a tick while button 9 was held
\* by the receiver
C17_Witness ==
    /\ last = [op |-> "complete", wasActive |-> TRUE]
    /\ pc = "ir"
    /\ irFrame = 9
    /\ irDuringSunrise
    /\ armedPlanet = 1
    /\ led = PlanetRGB(1)

\* the tick writes, on every channel, a value in 0..255 that is not below the
\* value the LED has and not above the target
RampStep ==
    /\ led'.r \in 0 .. 255 /\ led.r <= led'.r /\ led'.r <= targetR
    /\ led'.g \in 0 .. 255 /\ led.g <= led'.g /\ led'.g <= targetG
    /\ led'.b \in 0 .. 255 /\ led.b <= led'.b /\ led'.b <= targetB

\* less than 2^32 ms have passed since the sunrise was armed
ElapsedFits == trueElapsed.hi < TwoTo16

\* C18 as stated: from the arming of a sunrise on, every tick writes to each
\* channel a value in 0..255 that is at least the value written before it in
\* the run and at most the channel's target.
C18_RampMonotone == [][Ticking => RampStep]_vars

\* C18: every tick that comes less than 2^32 ms after the arming writes to
\* each channel a value in 0..255 that is at least the value written before it
\* in the run and at most the channel's target.
C18_RampMonotoneBeforeWrap == [][Ticking /\ ElapsedFits => RampStep]_vars

\* a tick of a 25 ms sunrise on the Moon has raised the ramp a second time, 21
\* ms after the start
C18_Witness ==
    /\ last = [op |-> "ramp", wasActive |-> TRUE]
    /\ armedPlanet = 1
    /\ sunriseDuration = U32Of(25)
    /\ trueElapsed = U32Of(21)
    /\ led = Color(84, 125, 214)

\* the tick sees the time since the arming and completes the sunrise exactly
\* when that time has reached the duration
TickSeesTrueTime ==
    /\ elapsed = trueElapsed
    /\ ~sunriseActive' <=> U32Geq(trueElapsed, sunriseDuration)

\* C19 as stated: the elapsed time of a tick is (millis() - sunriseStartTime)
\* modulo 2^32, which is the time since the arming also when millis() has
\* wrapped in between; the sunrise completes at the first tick at or after its
\* duration, not earlier, and does not start its ramp again, whatever the
\* duration.
C19_WrapSafe == [][Ticking => TickSeesTrueTime]_vars

\* C19: a tick that comes less than 2^32 ms after the arming sees the time
\* since the arming, also when millis() has wrapped in between, and completes
\* the sunrise exactly when that time has reached the duration.
C19_WrapSafeBelowRange == [][Ticking /\ ElapsedFits => TickSeesTrueTime]_vars

\* a 25 ms sunrise armed 14 ms before millis() wrapped has ticked 7 ms after
\* the wrap
C19_Witness ==
    /\ last = [op |-> "ramp", wasActive |-> TRUE]
    /\ sunriseStartTime = U32Neg(U32Of(14))
    /\ clock = U32Of(7)
    /\ sunriseDuration = U32Of(25)
    /\ trueElapsed = U32Of(21)
    /\ led.b > 0

====
